---------------------------- MODULE Spec2Model ----------------------------
(***************************************************************************)
(* Model of update_bmnr.py: one run of main(), which reads up to four      *)
(* upstream views of one ticker (fast_info, a 2-day history, the info      *)
(* dict, the yearly income statement), completes the missing fields by a   *)
(* fallback chain, derives the day gains and writes one JSON record.       *)
(*                                                                         *)
(* Values.  A Python value that reaches to_float is a record               *)
(*   [ty, k, n, d]:                                                        *)
(*     ty = "none"   None                                                  *)
(*     ty = "float"  a float: k = "fin" (the rational n/d, d > 0, in       *)
(*                   lowest terms) or k = "nan"                            *)
(*     ty = "str"    a string: k is what float() makes of it, "fin", "nan" *)
(*                   or "bad" (float() raises ValueError)                  *)
(*     ty = "obj"    a number object that is not a float instance, such as *)
(*                   decimal.Decimal: k = "fin" or "nan"                   *)
(* Finite floats are modelled as exact rationals.                          *)
(***************************************************************************)
EXTENDS Integers, Sequences, FiniteSets, TLC

VARIABLES
    sources,        \* what the upstream returns in this run (fixed per run)
    pc,             \* position of main()
    exc,            \* the exception that ended main(), "" if none
    last_price, prev_close, market_cap, basic_shares, diluted_shares,
    day_gain, day_gain_pct, mc_day_gain, mc_day_gain_pct,
    events,         \* the upstream requests and file writes so far, in order
    result,         \* the dict built at lines 134-151
    written         \* number of times OUTFILE has been written

vars == <<sources, pc, exc, last_price, prev_close, market_cap, basic_shares,
          diluted_shares, day_gain, day_gain_pct, mc_day_gain,
          mc_day_gain_pct, events, result, written>>

----------------------------------------------------------------------------
(* Bounds of the model *)

\* longest history window (rows returned by history(period="2d"))
MaxHist == 2

\* most periods (columns) of an income-statement line item
MaxPeriods == 2

----------------------------------------------------------------------------
(* Values and float arithmetic *)

RECURSIVE GCD(_, _)
GCD(a, b) == IF b = 0 THEN a ELSE GCD(b, a % b)

Abs(x) == IF x < 0 THEN -x ELSE x

None == [ty |-> "none", k |-> "none", n |-> 0, d |-> 1]

\* the float n/d, in lowest terms (d > 0)
Num(n, d) ==
    LET g == GCD(Abs(n), d)
    IN  [ty |-> "float", k |-> "fin", n |-> n \div g, d |-> d \div g]

NaN == [ty |-> "float", k |-> "nan", n |-> 0, d |-> 1]

\* the string "nan": float("nan") is a NaN
StrNaN == [ty |-> "str", k |-> "nan", n |-> 0, d |-> 1]

\* a string float() cannot parse, such as "N/A"
StrBad == [ty |-> "str", k |-> "bad", n |-> 0, d |-> 1]

\* a NaN that is not a float instance, such as decimal.Decimal("NaN")
ObjNaN == [ty |-> "obj", k |-> "nan", n |-> 0, d |-> 1]

IsFinite(x) == x.ty = "float" /\ x.k = "fin"

IsZero(x) == IsFinite(x) /\ x.n = 0

\* Python truthiness of a value: None, 0.0 and "" are falsy; NaN is truthy
Truthy(x) ==
    CASE x.ty = "none"  -> FALSE
      [] x.ty = "str"   -> TRUE
      [] OTHER          -> ~(x.k = "fin" /\ x.n = 0)

\* Python's  a or b
Or(a, b) == IF Truthy(a) THEN a ELSE b

\* float subtraction, multiplication and division (the divisor is not 0.0)
FSub(a, b) ==
    IF a.k = "nan" \/ b.k = "nan" THEN NaN
    ELSE Num(a.n * b.d - b.n * a.d, a.d * b.d)

FMul(a, b) ==
    IF a.k = "nan" \/ b.k = "nan" THEN NaN
    ELSE Num(a.n * b.n, a.d * b.d)

FDiv(a, b) ==
    IF a.k = "nan" \/ b.k = "nan" THEN NaN
    ELSE IF b.n < 0 THEN Num(-(a.n * b.d), a.d * (-b.n))
    ELSE Num(a.n * b.d, a.d * b.n)

\* 10^e
RECURSIVE Pow10(_)
Pow10(e) == IF e = 0 THEN 1 ELSE 10 * Pow10(e - 1)

\* round(x, ndigits) of a float: to the nearest multiple of 10^-ndigits,
\* ties to even; a NaN stays a NaN
Round(x, ndigits) ==
    IF x.k = "nan" THEN NaN
    ELSE LET P    == Pow10(ndigits)
             q    == x.n \div x.d
             r    == x.n - q * x.d
             f    == (r * P) \div x.d
             rem  == (r * P) % x.d
             odd  == (((q % 2) * (P % 2)) + f) % 2 = 1
             up   == 2 * rem > x.d \/ (2 * rem = x.d /\ odd)
             frac == Num(IF up THEN f + 1 ELSE f, P)
         IN  Num(q * frac.d + frac.n, frac.d)

----------------------------------------------------------------------------
(* to_float and round_or_none, lines 24-33 *)

to_float(x) ==
    IF x.ty = "none" \/ (x.ty = "float" /\ x.k = "nan") THEN None
    ELSE IF x.k = "bad" THEN None               \* float(x) raises: except
    ELSE [ty |-> "float", k |-> x.k, n |-> x.n, d |-> x.d]

round_or_none(x, ndigits) == IF x = None THEN None ELSE Round(x, ndigits)

SYMBOL == "BMNR"

----------------------------------------------------------------------------
(* The upstream's answers *)

\* fast_info: st = "fail" (the attribute access raises), "empty" (falsy),
\* "readfail" (reading a field raises), "ok"
FastOther ==
    {[st |-> s, last_price |-> None, previous_close |-> None,
      market_cap |-> None, shares |-> None] : s \in {"fail", "empty", "readfail"}}

FastOK(L, P, M, S) ==
    {[st |-> "ok", last_price |-> l, previous_close |-> p,
      market_cap |-> m, shares |-> s] : l \in L, p \in P, m \in M, s \in S}

SeqsUpTo(S, m) == UNION {[1..i -> S] : i \in 0..m}

\* history(): st = "fail" (the request raises), "readfail" (hist["Close"]
\* raises), "ok" with the Close column, oldest row first
HistOther == {[st |-> s, close |-> <<>>] : s \in {"fail", "readfail"}}

HistOK(C) == {[st |-> "ok", close |-> c] : c \in C}

\* get_info() / .info: st = "ok" (get_info returns the dict), "legacy"
\* (get_info raises, .info returns the dict), "fail" (both raise),
\* "readfail" (what is returned raises when a field is read)
InfoOther ==
    {[st |-> s, sharesOutstanding |-> None, floatShares |-> None,
      marketCap |-> None] : s \in {"fail", "readfail"}}

InfoOK(T, S, F, M) ==
    {[st |-> t, sharesOutstanding |-> s, floatShares |-> f, marketCap |-> m] :
        t \in T, s \in S, f \in F, m \in M}

candidates ==
    << "DilutedAverageShares",
       "Diluted Average Shares",
       "DilutedSharesOutstanding",
       "Diluted Shares Outstanding",
       "WeightedAverageDilutedSharesOutstanding",
       "Weighted Average Diluted Shares Outstanding" >>

CandidateNames == {candidates[i] : i \in 1..Len(candidates)}

\* a line item missing from inc.index
Absent == [present |-> FALSE, vals |-> <<>>]

Row(v) == [present |-> TRUE, vals |-> v]

\* get_income_stmt(): st = "fail" (raises), "none" (returns None),
\* "readfail" (inc.index / inc.loc raises), "ok" with the table: for each
\* candidate name its row, most recent period first
EmptyTable == [c \in CandidateNames |-> Absent]

IncOther == {[st |-> s, table |-> EmptyTable] : s \in {"fail", "none", "readfail"}}

IncOK(R1, R3) ==
    {[st |-> "ok",
      table |-> [c \in CandidateNames |->
                    IF c = candidates[1] THEN r1
                    ELSE IF c = candidates[3] THEN r3 ELSE Absent]] :
        r1 \in R1, r3 \in R3}

Rows(cells) == {Absent} \cup {Row(v) : v \in SeqsUpTo(cells, MaxPeriods) \ {<<>>}}

\* the values used in the runs
Price10 == Num(10, 1)
Price95 == Num(19, 2)
Zero == Num(0, 1)
Cap == Num(12345678, 1)
Shares1M == Num(1000000, 1)
Shares2M == Num(2000000, 1)
Float3M == Num(3000000, 1)
InfoCap == Num(7000000, 1)
Dil24 == Num(2400000, 1)
Dil25 == Num(5000001, 2)

HistAll == HistOther \cup HistOK(SeqsUpTo({NaN, Price95, Price10}, MaxHist))
HistFew == {[st |-> "fail", close |-> <<>>], [st |-> "ok", close |-> <<Price95, Price10>>]}

InfoAll ==
    InfoOther \cup
    InfoOK({"ok", "legacy"}, {None, Zero, Shares2M}, {None, NaN, Float3M},
           {None, Zero, ObjNaN, InfoCap})
InfoFew ==
    {[st |-> "fail", sharesOutstanding |-> None, floatShares |-> None, marketCap |-> None],
     [st |-> "ok", sharesOutstanding |-> Shares2M, floatShares |-> None, marketCap |-> None]}

IncAll == IncOther \cup IncOK(Rows({NaN, Dil24, StrBad}), Rows({NaN, Dil25, StrBad}))
IncFew == {[st |-> "none", table |-> EmptyTable]} \cup IncOK({Row(<<Dil24>>)}, {Absent})

\* the runs: every fast snapshot and history with few of the rest, every
\* info bundle with few of the rest, every income statement with few of
\* the rest
PriceRuns ==
    [fast : FastOther \cup FastOK({None, Price10, StrNaN}, {None, Price95, Zero},
                                  {None, Cap}, {None, Zero, Shares1M}),
     hist : HistAll, info : InfoFew, inc : IncFew]

InfoRuns ==
    [fast : FastOK({None, Price10}, {Price95}, {None, Cap}, {None, Zero, Shares1M}),
     hist : HistFew, info : InfoAll, inc : IncFew]

IncRuns ==
    [fast : FastOK({Price10}, {None, Price95}, {None}, {None, Shares1M}),
     hist : HistFew, info : InfoFew, inc : IncAll]

Sources == PriceRuns \cup InfoRuns \cup IncRuns

----------------------------------------------------------------------------
(* The steps of main() as operators *)

\* fast, after lines 39-43: the snapshot, or {} when the access raised or
\* the snapshot is falsy; fast.get(key) of a missing key is None
FastDict(f) ==
    IF f.st = "fail" \/ f.st = "empty"
    THEN [last_price |-> None, previous_close |-> None, market_cap |-> None,
          shares |-> None]
    ELSE [last_price |-> f.last_price, previous_close |-> f.previous_close,
          market_cap |-> f.market_cap, shares |-> f.shares]

\* line 51
NeedHistory(lp, pcl) == lp = None \/ pcl = None

\* pandas isna: None and float NaN
IsNa(c) == c.ty = "none" \/ (c.ty = "float" /\ c.k = "nan")

\* Series.dropna().tolist()
DropNa(col) == SelectSeq(col, LAMBDA c : ~IsNa(c))

\* HistLast without the test that last_price is still missing
HistLastOverwrite(lp, closes) ==
    IF Len(closes) >= 1 THEN to_float(closes[Len(closes)]) ELSE lp

\* lines 57-58
HistLast(lp, closes) ==
    IF Len(closes) >= 1 /\ lp = None THEN to_float(closes[Len(closes)]) ELSE lp

\* lines 59-60
HistPrev(pcl, closes) ==
    IF Len(closes) >= 2 /\ pcl = None THEN to_float(closes[Len(closes) - 1]) ELSE pcl

\* info, after lines 67-75
InfoDict(i) ==
    IF i.st = "fail"
    THEN [sharesOutstanding |-> None, floatShares |-> None, marketCap |-> None]
    ELSE [sharesOutstanding |-> i.sharesOutstanding, floatShares |-> i.floatShares,
          marketCap |-> i.marketCap]

\* lines 77-80
InfoShares(bs, info) ==
    IF bs = None THEN to_float(Or(info.sharesOutstanding, info.floatShares)) ELSE bs

\* lines 82-87
InfoMarketCap(mc, bs, lp, info) ==
    IF mc = None
    THEN to_float(Or(info.marketCap,
                     IF Truthy(bs) /\ Truthy(lp) THEN FMul(bs, lp) ELSE None))
    ELSE mc

\* line 108: name in inc.index and not inc.loc[name].dropna().empty
CandidateHit(table, name) ==
    table[name].present /\ DropNa(table[name].vals) # <<>>

\* lines 107-111: the index in candidates of the first hit, from i on; 0 if none
RECURSIVE FirstHit(_, _)
FirstHit(table, i) ==
    IF i > Len(candidates) THEN 0
    ELSE IF CandidateHit(table, candidates[i]) THEN i
    ELSE FirstHit(table, i + 1)

\* line 110: inc.loc[name].dropna().iloc[0]
LatestValue(table, name) == DropNa(table[name].vals)[1]

\* lines 90-111, when get_income_stmt returned inc
StmtDiluted(inc) ==
    IF inc.st # "ok" THEN None
    ELSE LET h == FirstHit(inc.table, 1)
         IN  IF h = 0 THEN None ELSE to_float(LatestValue(inc.table, candidates[h]))

\* DilutedDefault with a 1.2 inflation of the basic shares
DilutedInflated(ds, bs) ==
    IF ds = None /\ bs # None THEN FMul(bs, Num(6, 5)) ELSE ds

\* lines 114-115
DilutedDefault(ds, bs) == IF ds = None /\ bs # None THEN bs ELSE ds

\* GainGuard without the test prev_close != 0
GainGuardNoZeroTest(lp, pcl) == lp # None /\ pcl # None

\* line 120 (NaN != 0 is true)
GainGuard(lp, pcl) == lp # None /\ pcl # None /\ ~IsZero(pcl)

\* DayGain with the operands swapped
DayGainSwapped(lp, pcl) == FSub(pcl, lp)

\* line 121
DayGain(lp, pcl) == FSub(lp, pcl)

\* line 122
DayGainPct(dg, pcl) == FMul(FDiv(dg, pcl), Num(100, 1))

\* line 128
McGuard(bs, dg) == Truthy(bs) /\ dg # None

\* line 129
McDayGain(dg, bs) == FMul(dg, bs)

\* McDayGainPct left unset
McDayGainPctUnset(dgp) == None

\* line 131
McDayGainPct(dgp) == dgp

\* lines 134-151
BuildResult(lp, dg, dgp, mc, mdg, mdgp, bs, ds) ==
    [symbol |-> SYMBOL,
     timestamp_iso |-> "utcnow",
     price |-> round_or_none(lp, 4),
     day_gain |-> round_or_none(dg, 4),
     day_gain_pct |-> round_or_none(dgp, 4),
     market_cap |-> round_or_none(mc, 2),
     market_cap_day_gain |-> round_or_none(mdg, 2),
     market_cap_day_gain_pct |-> round_or_none(mdgp, 4),
     basic_shares_outstanding |-> round_or_none(bs, 0),
     assumed_diluted_shares_outstanding |-> round_or_none(ds, 0)]

----------------------------------------------------------------------------
(* The run *)

Init ==
    /\ sources \in Sources
    /\ pc = "fast"
    /\ exc = ""
    /\ last_price = None /\ prev_close = None
    /\ market_cap = None /\ basic_shares = None /\ diluted_shares = None
    /\ day_gain = None /\ day_gain_pct = None
    /\ mc_day_gain = None /\ mc_day_gain_pct = None
    /\ events = <<>>
    /\ result = <<>>
    /\ written = 0

\* lines 38-48: fast_info is requested and its four fields are read; a field
\* whose read raises ends main() with the exception (no try around .get)
ReadFast ==
    /\ pc = "fast"
    /\ events' = Append(events, "fast_info")
    /\ IF sources.fast.st = "readfail"
       THEN /\ pc' = "raised"
            /\ exc' = "fast_info field"
            /\ UNCHANGED <<last_price, prev_close, market_cap, basic_shares>>
       ELSE LET fast == FastDict(sources.fast)
            IN  /\ last_price' = to_float(fast.last_price)
                /\ prev_close' = to_float(fast.previous_close)
                /\ market_cap' = to_float(fast.market_cap)
                /\ basic_shares' = to_float(fast.shares)
                /\ pc' = "history"
                /\ exc' = exc
    /\ UNCHANGED <<sources, diluted_shares, day_gain, day_gain_pct, mc_day_gain,
                   mc_day_gain_pct, result, written>>

\* lines 51-62: the history is requested; any exception is swallowed
FetchHistory ==
    /\ pc = "history"
    /\ NeedHistory(last_price, prev_close)
    /\ events' = Append(events, "history")
    /\ IF sources.hist.st = "ok" /\ sources.hist.close # <<>>
       THEN LET closes == DropNa(sources.hist.close)
            IN  /\ last_price' = HistLast(last_price, closes)
                /\ prev_close' = HistPrev(prev_close, closes)
       ELSE UNCHANGED <<last_price, prev_close>>
    /\ pc' = "info"
    /\ UNCHANGED <<sources, exc, market_cap, basic_shares, diluted_shares, day_gain,
                   day_gain_pct, mc_day_gain, mc_day_gain_pct, result, written>>

\* line 51, condition false
SkipHistory ==
    /\ pc = "history"
    /\ ~NeedHistory(last_price, prev_close)
    /\ pc' = "info"
    /\ UNCHANGED <<sources, exc, last_price, prev_close, market_cap, basic_shares,
                   diluted_shares, day_gain, day_gain_pct, mc_day_gain,
                   mc_day_gain_pct, events, result, written>>

\* lines 65-87: get_info, then .info if that raised; the fields are read
\* outside the try
FetchInfo ==
    /\ pc = "info"
    /\ market_cap = None
    /\ events' = IF sources.info.st \in {"legacy", "fail"}
                 THEN events \o <<"get_info", "info">>
                 ELSE Append(events, "get_info")
    /\ IF sources.info.st = "readfail"
       THEN /\ pc' = "raised"
            /\ exc' = "info field"
            /\ UNCHANGED <<basic_shares, market_cap>>
       ELSE LET info == InfoDict(sources.info)
                bs   == InfoShares(basic_shares, info)
            IN  /\ basic_shares' = bs
                /\ market_cap' = InfoMarketCap(market_cap, bs, last_price, info)
                /\ pc' = "income"
                /\ exc' = exc
    /\ UNCHANGED <<sources, last_price, prev_close, diluted_shares, day_gain,
                   day_gain_pct, mc_day_gain, mc_day_gain_pct, result, written>>

\* line 65, condition false
SkipInfo ==
    /\ pc = "info"
    /\ market_cap # None
    /\ pc' = "income"
    /\ UNCHANGED <<sources, exc, last_price, prev_close, market_cap, basic_shares,
                   diluted_shares, day_gain, day_gain_pct, mc_day_gain,
                   mc_day_gain_pct, events, result, written>>

\* lines 90-111: the income statement is requested (the request is in a
\* try, the reads of inc.index and inc.loc are not)
FetchIncome ==
    /\ pc = "income"
    /\ events' = Append(events, "get_income_stmt")
    /\ IF sources.inc.st = "readfail"
       THEN /\ pc' = "raised"
            /\ exc' = "income statement field"
            /\ UNCHANGED diluted_shares
       ELSE /\ diluted_shares' = StmtDiluted(sources.inc)
            /\ pc' = "compute"
            /\ exc' = exc
    /\ UNCHANGED <<sources, last_price, prev_close, market_cap, basic_shares,
                   day_gain, day_gain_pct, mc_day_gain, mc_day_gain_pct,
                   result, written>>

\* lines 113-157: the default for the diluted shares, the gains, the record
\* and the write of OUTFILE; a division by 0.0 raises ZeroDivisionError
ComputeAndWrite ==
    /\ pc = "compute"
    /\ LET ds   == DilutedDefault(diluted_shares, basic_shares)
           g    == GainGuard(last_price, prev_close)
           dg   == IF g THEN DayGain(last_price, prev_close) ELSE None
       IN  IF g /\ IsZero(prev_close)
           THEN /\ pc' = "raised"
                /\ exc' = "ZeroDivisionError"
                /\ diluted_shares' = ds
                /\ day_gain' = dg
                /\ UNCHANGED <<day_gain_pct, mc_day_gain, mc_day_gain_pct,
                               events, result, written>>
           ELSE LET dgp  == IF g THEN DayGainPct(dg, prev_close) ELSE None
                    m    == McGuard(basic_shares, dg)
                    mdg  == IF m THEN McDayGain(dg, basic_shares) ELSE None
                    mdgp == IF m THEN McDayGainPct(dgp) ELSE None
                IN  /\ diluted_shares' = ds
                    /\ day_gain' = dg
                    /\ day_gain_pct' = dgp
                    /\ mc_day_gain' = mdg
                    /\ mc_day_gain_pct' = mdgp
                    /\ result' = BuildResult(last_price, dg, dgp, market_cap,
                                             mdg, mdgp, basic_shares, ds)
                    /\ events' = Append(events, "write")
                    /\ written' = written + 1
                    /\ pc' = "done"
                    /\ exc' = exc
    /\ UNCHANGED <<sources, last_price, prev_close, market_cap, basic_shares>>

Next ==
    \/ ReadFast
    \/ FetchHistory
    \/ SkipHistory
    \/ FetchInfo
    \/ SkipInfo
    \/ FetchIncome
    \/ ComputeAndWrite

Spec == Init /\ [][Next]_vars

----------------------------------------------------------------------------
(* Properties *)

\* what main() saw of the sources
Fast == FastDict(sources.fast)
FastLast == to_float(Fast.last_price)
FastPrev == to_float(Fast.previous_close)
FastCap == to_float(Fast.market_cap)
FastShares == to_float(Fast.shares)
Info == InfoDict(sources.info)
Closes == IF sources.hist.st = "ok" THEN DropNa(sources.hist.close) ELSE <<>>
Hit == IF sources.inc.st = "ok" THEN FirstHit(sources.inc.table, 1) ELSE 0

Has(e) == \E i \in 1..Len(events) : events[i] = e

NumericFields ==
    {"price", "day_gain", "day_gain_pct", "market_cap", "market_cap_day_gain",
     "market_cap_day_gain_pct", "basic_shares_outstanding",
     "assumed_diluted_shares_outstanding"}

RecordFields == NumericFields \cup {"symbol", "timestamp_iso"}

\* position of an event in the fixed order of a run
Rank(e) ==
    CASE e = "fast_info"       -> 1
      [] e = "history"         -> 2
      [] e = "get_info"        -> 3
      [] e = "info"            -> 4
      [] e = "get_income_stmt" -> 5
      [] e = "write"           -> 6

\* The requests of every run, raising or not, come in the fixed order, each at
\* most once, the history only when the fast snapshot left last_price or
\* previous_close missing, the info bundle only when it left market_cap
\* missing, and the record is written at most once, after every request.
RequestOrder ==
    /\ \A i, j \in 1..Len(events) : i < j => Rank(events[i]) < Rank(events[j])
    /\ Has("history") => (FastLast = None \/ FastPrev = None)
    /\ Has("get_info") => FastCap = None
    /\ written <= 1
    /\ written = 1 <=> Has("write")

\* C1: for every combination of source outcomes main() never raises and ends
\* having written one record with all ten fields, the fields that depended
\* on a failed source being null.
C1_NeverRaises ==
    /\ pc # "raised"
    /\ pc = "done" =>
        /\ written = 1
        /\ DOMAIN result = RecordFields
        /\ (sources.fast.st # "ok" /\ sources.hist.st # "ok") =>
               /\ result.price = None
               /\ result.day_gain = None
               /\ result.day_gain_pct = None
        /\ (sources.fast.st # "ok" /\ sources.info.st \notin {"ok", "legacy"}) =>
               /\ result.market_cap = None
               /\ result.market_cap_day_gain = None
               /\ result.basic_shares_outstanding = None
        /\ (result.basic_shares_outstanding = None /\ Hit = 0) =>
               result.assumed_diluted_shares_outstanding = None

\* C2: in every run the sources are consulted in the fixed order, a lower
\* source only when a field it can supply is still missing, and the record
\* is written exactly once, after all source requests.
C2_OrderedRequestsOneWrite ==
    /\ RequestOrder
    /\ (FastLast # None /\ FastPrev # None) => ~Has("history")
    /\ pc \in {"done", "raised"} =>
        /\ written = 1
        /\ events[Len(events)] = "write"

\* C3: the history window fills only the side the fast snapshot left missing,
\* last_price from the most recent non-null close and previous_close from the
\* second most recent, and never overwrites a value the fast snapshot gave;
\* an empty fast snapshot with history [9.5, 10.0] gives the same price,
\* day_gain and day_gain_pct as a fast snapshot with 10.0 and 9.5.
C3_HistoryFillsOnlyMissing ==
    /\ pc \in {"info", "income", "compute", "done"} =>
        /\ FastLast # None => last_price = FastLast
        /\ FastPrev # None => prev_close = FastPrev
        /\ FastLast = None =>
              last_price = IF Len(Closes) >= 1
                           THEN to_float(Closes[Len(Closes)]) ELSE None
        /\ FastPrev = None =>
              prev_close = IF Len(Closes) >= 2
                           THEN to_float(Closes[Len(Closes) - 1]) ELSE None
    /\ ( /\ pc = "done"
         /\ \/ /\ Fast.last_price = None /\ Fast.previous_close = None
               /\ sources.hist = [st |-> "ok", close |-> <<Num(19, 2), Num(10, 1)>>]
            \/ Fast.last_price = Num(10, 1) /\ Fast.previous_close = Num(19, 2) )
       => /\ result.price = Num(10, 1)
          /\ result.day_gain = Num(1, 2)
          /\ result.day_gain_pct = Num(52632, 10000)

\* a run in which the history filled last_price and left the previous_close
\* of the fast snapshot alone
C3_Witness ==
    /\ pc = "done"
    /\ Fast.last_price = None /\ Fast.previous_close = Zero
    /\ sources.hist.close = <<Price95, Price10>>
    /\ last_price = Price10 /\ prev_close = Zero

\* C4 as claimed: day_gain in the record is non-null exactly when last_price
\* and previous_close are both non-null, previous_close = 0 included, and is
\* then last_price - previous_close.
C4_DayGainWhenBothPresent ==
    pc = "done" =>
        /\ result.day_gain # None <=> (last_price # None /\ prev_close # None)
        /\ (last_price # None /\ prev_close # None) =>
              /\ day_gain = FSub(last_price, prev_close)
              /\ result.day_gain = Round(FSub(last_price, prev_close), 4)

\* C4 amended: day_gain in the record is non-null exactly when last_price
\* and previous_close are both non-null and previous_close is not 0, and is
\* then last_price - previous_close (rounded to 4 places in the record).
C4_DayGainUnlessZeroClose ==
    pc = "done" =>
        /\ result.day_gain # None <=>
              (last_price # None /\ prev_close # None /\ ~IsZero(prev_close))
        /\ (last_price # None /\ prev_close # None /\ ~IsZero(prev_close)) =>
              /\ day_gain = FSub(last_price, prev_close)
              /\ result.day_gain = Round(FSub(last_price, prev_close), 4)

\* a record whose day_gain is 10.0 - 9.5
C4_Witness ==
    /\ pc = "done"
    /\ last_price = Price10 /\ prev_close = Price95
    /\ result.day_gain = Num(1, 2)

\* C5: day_gain_pct is non-null exactly when last_price is non-null and
\* previous_close is non-null and not 0, and is then
\* day_gain / previous_close * 100; a previous_close of 0 never raises
\* ZeroDivisionError and gives a null day_gain_pct.
C5_PctGuardedAgainstZero ==
    /\ exc # "ZeroDivisionError"
    /\ pc = "done" =>
        /\ result.day_gain_pct # None <=>
              (last_price # None /\ prev_close # None /\ ~IsZero(prev_close))
        /\ result.day_gain_pct # None =>
              /\ day_gain_pct =
                    FMul(FDiv(FSub(last_price, prev_close), prev_close), Num(100, 1))
              /\ result.day_gain_pct = Round(day_gain_pct, 4)
        /\ IsZero(prev_close) => result.day_gain_pct = None

\* a record written with a last_price and a previous_close of 0
C5_Witness ==
    /\ pc = "done"
    /\ last_price = Price10 /\ prev_close = Zero
    /\ result.day_gain_pct = None

\* the value of a cell as a float, whatever its type
AsFloat(v) == [ty |-> "float", k |-> v.k, n |-> v.n, d |-> v.d]

\* C6 as claimed: a record with basic shares has diluted shares; without an
\* income statement or a candidate with a non-null value the diluted shares
\* equal the basic shares (null when those are null); otherwise the most
\* recent non-null value of the first such candidate is used.
C6_DilutedFromFirstCandidate ==
    pc = "done" =>
        /\ result.basic_shares_outstanding # None =>
              result.assumed_diluted_shares_outstanding # None
        /\ Hit = 0 =>
              /\ diluted_shares = basic_shares
              /\ result.assumed_diluted_shares_outstanding =
                    result.basic_shares_outstanding
        /\ Hit # 0 =>
              diluted_shares = AsFloat(LatestValue(sources.inc.table, candidates[Hit]))

\* C6 amended: as claimed, but the most recent non-null value of the first
\* candidate that has one is used only if to_float converts it to a number;
\* if not, no later candidate is tried and the diluted shares equal the
\* basic shares.
C6_DilutedFromFirstCandidateIfNumeric ==
    pc = "done" =>
        /\ result.basic_shares_outstanding # None =>
              result.assumed_diluted_shares_outstanding # None
        /\ Hit = 0 =>
              /\ diluted_shares = basic_shares
              /\ result.assumed_diluted_shares_outstanding =
                    result.basic_shares_outstanding
        /\ Hit # 0 =>
              LET v == LatestValue(sources.inc.table, candidates[Hit])
              IN  /\ v.k # "bad" => diluted_shares = AsFloat(v)
                  /\ v.k = "bad" => diluted_shares = basic_shares
        /\ result.assumed_diluted_shares_outstanding = round_or_none(diluted_shares, 0)

\* a record whose diluted shares are an older period of the second candidate
\* found, the first having only null periods, although basic shares are known
C6_Witness ==
    /\ pc = "done"
    /\ sources.inc.st = "ok"
    /\ sources.inc.table[candidates[1]] = Row(<<NaN>>)
    /\ sources.inc.table[candidates[3]] = Row(<<NaN, Dil25>>)
    /\ basic_shares = Shares1M
    /\ result.assumed_diluted_shares_outstanding = Num(2500000, 1)

\* a record whose diluted shares are the basic shares 2,000,000, there being
\* no income statement
C6_WitnessDefault ==
    /\ pc = "done"
    /\ Hit = 0
    /\ result.basic_shares_outstanding = Num(2000000, 1)
    /\ result.assumed_diluted_shares_outstanding = Num(2000000, 1)

\* C7: market_cap_day_gain is non-null exactly when day_gain and the basic
\* shares are both non-null, a share count of 0 included, and is then
\* day_gain * basic shares (0.5 and 1,000,000 give 500,000.0).
C7_McGainWhenBothPresent ==
    pc = "done" =>
        /\ result.market_cap_day_gain # None <=>
              (day_gain # None /\ basic_shares # None)
        /\ (day_gain # None /\ basic_shares # None) =>
              /\ mc_day_gain = FMul(day_gain, basic_shares)
              /\ result.market_cap_day_gain = Round(FMul(day_gain, basic_shares), 2)
        /\ (day_gain = Num(1, 2) /\ basic_shares = Num(1000000, 1)) =>
              result.market_cap_day_gain = Num(500000, 1)

\* C8 as claimed: in every record market_cap_day_gain_pct equals
\* day_gain_pct, whether or not a basic share count was found.
C8_McPctEqualsPct ==
    pc = "done" => result.market_cap_day_gain_pct = result.day_gain_pct

\* C8 amended: in every record market_cap_day_gain_pct equals day_gain_pct
\* when market_cap_day_gain is non-null, and is null when it is null.
C8_McPctEqualsPctWhenMcGain ==
    pc = "done" =>
        /\ result.market_cap_day_gain # None =>
              /\ mc_day_gain_pct = day_gain_pct
              /\ result.market_cap_day_gain_pct = result.day_gain_pct
        /\ result.market_cap_day_gain = None =>
              result.market_cap_day_gain_pct = None

\* a record with a market-cap gain and both percentages 5.2632
C8_Witness ==
    /\ pc = "done"
    /\ result.market_cap_day_gain = Num(500000, 1)
    /\ result.day_gain_pct = Num(52632, 10000)
    /\ result.market_cap_day_gain_pct = Num(52632, 10000)

\* C9: when market_cap is missing after the fast snapshot, missing basic
\* shares become sharesOutstanding if that is non-null (0 included) and
\* floatShares otherwise; market_cap becomes marketCap if non-null, otherwise
\* basic shares * last_price if both are non-null, otherwise null; basic
\* shares of the fast snapshot are never replaced.
C9_FirstNonNullWins ==
    (pc \in {"income", "compute", "done"} /\ FastCap = None) =>
        /\ FastShares # None => basic_shares = FastShares
        /\ FastShares = None =>
              basic_shares = to_float(IF Info.sharesOutstanding # None
                                      THEN Info.sharesOutstanding
                                      ELSE Info.floatShares)
        /\ market_cap =
              IF Info.marketCap # None THEN to_float(Info.marketCap)
              ELSE IF basic_shares # None /\ last_price # None
                   THEN to_float(FMul(basic_shares, last_price))
                   ELSE None

\* C10: every numeric field of a record is a finite number or null, never a
\* NaN: a not-a-number of a source, in whatever form, is made null by
\* to_float, and rounding null gives null.
C10_FiniteOrNull ==
    pc = "done" =>
        \A f \in NumericFields : result[f] = None \/ IsFinite(result[f])

=============================================================================
